---------------------------- MODULE Spec2Model ----------------------------
(***************************************************************************)
(* Model of the page extractor and the book segmenter of the static-site   *)
(* generator (create_website.py, add_adam_eve.py, improve_website.py).     *)
(*                                                                         *)
(* Strings are sequences of tokens; a token is a phrase of the bounded     *)
(* vocabulary below and its character length is the length of the phrase.  *)
(* A parsed document is its body's element list in document order, each    *)
(* element carrying its tag, its parent (0 is the body), its own leading   *)
(* character data and, for a link, whether it has an href attribute.       *)
(***************************************************************************)
EXTENDS Integers, Sequences, FiniteSets, TLC

VARIABLES
    doc,              \* the parsed markup handed to extract_clean_content
    variant,          \* which script's extract_clean_content ran
    result,           \* its return value, [title, fragment]
    dir,              \* the source directory: file name -> content
    listing,          \* the order in which os.listdir gives its names
    html_files,       \* identify_book_sections: the sorted scan list
    idx,              \* position of the scan in html_files
    current_section,  \* the cursor
    book_sections,    \* bucket -> list of file names
    title_lower,      \* lower-cased title of the file last visited
    books_data,       \* the books a run assembled, in the order it emits them
    book_pages,       \* the book pages a run wrote under books/
    index_page,       \* the index page a run wrote: its book cards
    previous,         \* what an earlier run over the same directory produced
    adam_eve_files,   \* improve_website: the files its scan collected
    first_book_files, \* improve_website: the files it split off for the first book
    second_book_files, \* improve_website: and for the second book
    pc                \* control position

vars == <<doc, variant, result, dir, listing, html_files, idx, current_section,
          book_sections, title_lower, books_data, book_pages, index_page,
          previous, adam_eve_files, first_book_files, second_book_files, pc>>

\* what a run hands to the templates and what it writes
Site == <<books_data, book_pages, index_page, previous>>

\* the file lists of improve_website
Split == <<adam_eve_files, first_book_files, second_book_files>>

-----------------------------------------------------------------------------
(* Bounds *)

MaxNodes == 3        \* elements in a document body
MaxTitleTokens == 2  \* tokens in a title handed to the keyword chain
NumPages == 3        \* page files fbe005.htm .. in the source directory
MaxFirstBookFiles == 22  \* pages of the first book in a directory with a long book

-----------------------------------------------------------------------------
(* Strings *)

Suffix == " | Sacred Texts Archive"
Umbrella == "The Forgotten Books of Eden"
MidText == "And Adam and Eve wept for having come out of Eden."
LongText == "And God commanded Adam to dwell in the Cave of Gold"

\* str.lower() on the vocabulary
Lower(t) ==
    CASE t = "The Forgotten Books of Eden" -> "the forgotten books of eden"
      [] t = "The First Book of Adam and Eve" -> "the first book of adam and eve"
      [] t = "The Second Book of Adam and Eve" -> "the second book of adam and eve"
      [] t = "The Book of the Secrets of Enoch" -> "the book of the secrets of enoch"
      [] t = "Secrets of Enoch" -> "secrets of enoch"
      [] t = "The Psalms of Solomon" -> "the psalms of solomon"
      [] t = "The Odes of Solomon" -> "the odes of solomon"
      [] t = "The Letter of Aristeas" -> "the letter of aristeas"
      [] t = "The Fourth Book of Maccabees" -> "the fourth book of maccabees"
      [] t = "Maccabees" -> "maccabees"
      [] t = "The Story of Ahikar" -> "the story of ahikar"
      [] t = "Ahikar" -> "ahikar"
      [] t = "The Testaments of the Twelve Patriarchs" -> "the testaments of the twelve patriarchs"
      [] t = "Chapter II" -> "chapter ii"
      [] t = "Chapter III" -> "chapter iii"
      [] t = MidText -> "and adam and eve wept for having come out of eden."
      [] t = "Next" -> "next"
      [] t = LongText -> "and god commanded adam to dwell in the cave of gold"
      [] t = Suffix -> " | sacred texts archive"
      [] OTHER -> t

\* the keyword literals of the scripts that occur inside a lower-cased token
SubstringsOf(t) ==
    CASE t = "the first book of adam and eve" -> {"first book of adam", "adam", "eve"}
      [] t = "the second book of adam and eve" -> {"second book of adam", "adam", "eve"}
      [] t = "the book of the secrets of enoch" ->
             {"secrets of enoch", "book of the secrets of enoch", "book of the secrets"}
      [] t = "secrets of enoch" -> {"secrets of enoch"}
      [] t = "the psalms of solomon" -> {"psalms of solomon"}
      [] t = "the odes of solomon" -> {"odes of solomon"}
      [] t = "the letter of aristeas" -> {"letter of aristeas"}
      [] t = "the fourth book of maccabees" -> {"fourth book of maccabees", "maccabees"}
      [] t = "maccabees" -> {"maccabees"}
      [] t = "the story of ahikar" -> {"story of ahikar", "ahikar"}
      [] t = "ahikar" -> {"ahikar"}
      [] t = "the testaments of the twelve patriarchs" -> {"testament"}
      [] t = "and god commanded adam to dwell in the cave of gold" -> {"adam"}
      [] t = "and adam and eve wept for having come out of eden." -> {"adam", "eve"}
      [] OTHER -> {}

\* the literals a lower-cased token starts with
PrefixesOf(t) ==
    IF t = "the forgotten books of eden" THEN {"the forgotten books"} ELSE {}

LowerText(s) == [i \in DOMAIN s |-> Lower(s[i])]

\* kw in s
Contains(s, kw) == \E i \in DOMAIN s : kw \in SubstringsOf(s[i])

\* s.startswith(kw)
StartsWith(s, kw) == s # <<>> /\ kw \in PrefixesOf(s[1])

IsSpace(t) == t \in {" ", "\n"}

RECURSIVE LStrip(_)
LStrip(s) == IF s = <<>> THEN <<>>
             ELSE IF IsSpace(Head(s)) THEN LStrip(Tail(s)) ELSE s

RECURSIVE RStrip(_)
RStrip(s) == IF s = <<>> THEN <<>>
             ELSE IF IsSpace(s[Len(s)]) THEN RStrip(SubSeq(s, 1, Len(s) - 1)) ELSE s

\* str.strip()
Strip(s) == RStrip(LStrip(s))

RECURSIVE StrLen(_)
\* len(str)
StrLen(s) == IF s = <<>> THEN 0 ELSE Len(Head(s)) + StrLen(Tail(s))

\* str.replace(old, ''): every occurrence goes
Replace(s, old) == SelectSeq(s, LAMBDA t : t # old)

-----------------------------------------------------------------------------
(* Parsed documents *)

Headings13 == {"h1", "h2", "h3"}
Headings == {"h1", "h2", "h3", "h4", "h5", "h6"}
Chrome == {"script", "nav", "style"}
Decorative == {"center", "hr"}
Collected == Headings \cup {"p", "blockquote", "div"}
VoidTags == {"hr", "script", "nav", "style"}

RECURSIVE IsAnc(_, _, _)
\* element a is a proper ancestor of element d
IsAnc(nodes, a, d) ==
    LET p == nodes[d].parent IN p # 0 /\ (p = a \/ IsAnc(nodes, a, p))

\* d lies inside e (inside the body when e = 0)
Within(nodes, e, d) == e = 0 \/ IsAnc(nodes, e, d)

\* Tag.decompose(): the element and everything below it leave the tree
Decompose(nodes, alive, e) ==
    alive \ ({e} \cup {d \in DOMAIN nodes : IsAnc(nodes, e, d)})

\* element.find(tag) is not None
Find(nodes, alive, e, tags) ==
    \E d \in alive : Within(nodes, e, d) /\ nodes[d].tag \in tags

RECURSIVE TextFrom(_, _, _, _)
TextFrom(nodes, alive, e, i) ==
    IF i > Len(nodes) THEN <<>>
    ELSE (IF i \in alive /\ (i = e \/ Within(nodes, e, i)) THEN nodes[i].text ELSE <<>>)
         \o TextFrom(nodes, alive, e, i + 1)

\* element.get_text()
GetText(nodes, alive, e) == TextFrom(nodes, alive, e, 1)

OpenTag(n, stripped) ==
    IF n.tag = "a" /\ n.href /\ ~stripped THEN "<a href>"
    ELSE "<" \o n.tag \o (IF n.tag = "hr" THEN "/>" ELSE ">")

CloseTag(n) == "</" \o n.tag \o ">"

RECURSIVE Str(_, _, _, _)
RECURSIVE StrKids(_, _, _, _, _)
\* str(element): the tag, its remaining attributes, its text and its children
Str(nodes, alive, nohref, e) ==
    IF nodes[e].tag = "hr" THEN <<OpenTag(nodes[e], FALSE)>>
    ELSE <<OpenTag(nodes[e], e \in nohref)>> \o nodes[e].text
         \o StrKids(nodes, alive, nohref, e, e + 1) \o <<CloseTag(nodes[e])>>

StrKids(nodes, alive, nohref, e, i) ==
    IF i > Len(nodes) THEN <<>>
    ELSE (IF i \in alive /\ nodes[i].parent = e THEN Str(nodes, alive, nohref, i) ELSE <<>>)
         \o StrKids(nodes, alive, nohref, e, i + 1)

RECURSIVE RemoveChrome(_, _, _)
\* for element in body.find_all(['script', 'nav', 'style']): element.decompose()
RemoveChrome(nodes, alive, i) ==
    IF i > Len(nodes) THEN alive
    ELSE RemoveChrome(nodes,
                      IF i \in alive /\ nodes[i].tag \in Chrome
                      THEN Decompose(nodes, alive, i) ELSE alive,
                      i + 1)

\* Thresholds of add_adam_eve.extract_clean_content
MinCenterText == 50
MinElementText == 10

\* add_adam_eve.py: has_content of a centered container
AE_has_content(nodes, alive, e) ==
    \/ Find(nodes, alive, e, {"h1"})
    \/ Find(nodes, alive, e, {"h2"})
    \/ Find(nodes, alive, e, {"h3"})
    \/ /\ Find(nodes, alive, e, {"p"})
       /\ StrLen(Strip(GetText(nodes, alive, e))) > MinCenterText

\* create_website.py, improve_website.py: the container holds a heading 1-3 or a paragraph
BP_has_content(nodes, alive, e) ==
    \/ Find(nodes, alive, e, {"h1"})
    \/ Find(nodes, alive, e, {"h2"})
    \/ Find(nodes, alive, e, {"h3"})
    \/ Find(nodes, alive, e, {"p"})

RECURSIVE AE_RemoveDecorative(_, _, _)
\* add_adam_eve.py: for element in body.find_all(['center', 'hr']).  The list is
\* taken before the loop; an element already destroyed with an ancestor has lost
\* its name, and destroying it again changes nothing.
AE_RemoveDecorative(nodes, alive, i) ==
    IF i > Len(nodes) THEN alive
    ELSE AE_RemoveDecorative(nodes,
            IF i \in alive /\ nodes[i].tag \in Decorative
            THEN IF nodes[i].tag = "center"
                 THEN IF ~AE_has_content(nodes, alive, i)
                      THEN Decompose(nodes, alive, i) ELSE alive
                 ELSE Decompose(nodes, alive, i)
            ELSE alive,
            i + 1)

RECURSIVE BP_RemoveCentersOnly(_, _, _)
\* BP_RemoveDecorative without the branch that removes a horizontal rule
BP_RemoveCentersOnly(nodes, alive, i) ==
    IF i > Len(nodes) THEN alive
    ELSE BP_RemoveCentersOnly(nodes,
            IF i \in alive /\ nodes[i].tag = "center" /\ ~BP_has_content(nodes, alive, i)
            THEN Decompose(nodes, alive, i) ELSE alive,
            i + 1)

RECURSIVE BP_RemoveDecorative(_, _, _)
\* create_website.py, improve_website.py: for nav_element in body.find_all(['center', 'hr'])
BP_RemoveDecorative(nodes, alive, i) ==
    IF i > Len(nodes) THEN alive
    ELSE BP_RemoveDecorative(nodes,
            IF i \in alive /\ nodes[i].tag \in Decorative
            THEN IF nodes[i].tag = "center" /\ ~BP_has_content(nodes, alive, i)
                 THEN Decompose(nodes, alive, i)
                 ELSE IF nodes[i].tag = "hr" THEN Decompose(nodes, alive, i) ELSE alive
            ELSE alive,
            i + 1)

RECURSIVE HeadingTitle(_, _, _, _)
\* title = ""; for heading in body.find_all(h1..h6): title = text; break on the
\* first one that is non-empty and does not start with the umbrella title
HeadingTitle(nodes, alive, i, title) ==
    IF i > Len(nodes) THEN title
    ELSE IF i \in alive /\ nodes[i].tag \in Headings
         THEN LET t == Strip(GetText(nodes, alive, i))
              IN IF t # <<>> /\ ~StartsWith(LowerText(t), "the forgotten books")
                 THEN t
                 ELSE HeadingTitle(nodes, alive, i + 1, t)
         ELSE HeadingTitle(nodes, alive, i + 1, title)

\* the links below a collected element that lose their href
LinksBelow(nodes, alive, e) ==
    {d \in alive : IsAnc(nodes, e, d) /\ nodes[d].tag = "a" /\ nodes[d].href}

RECURSIVE AE_CollectTopLevel(_, _, _, _)
\* AE_Collect over the children of the body only
AE_CollectTopLevel(nodes, alive, nohref, i) ==
    IF i > Len(nodes) THEN <<>>
    ELSE IF i \in alive /\ nodes[i].tag \in Collected /\ nodes[i].parent = 0
         THEN LET text == Strip(GetText(nodes, alive, i))
              IN IF text # <<>> /\ StrLen(text) > MinElementText
                 THEN LET nh == nohref \cup LinksBelow(nodes, alive, i)
                      IN Str(nodes, alive, nh, i) \o <<"\n">>
                         \o AE_CollectTopLevel(nodes, alive, nh, i + 1)
                 ELSE AE_CollectTopLevel(nodes, alive, nohref, i + 1)
         ELSE AE_CollectTopLevel(nodes, alive, nohref, i + 1)

RECURSIVE AE_Collect(_, _, _, _)
\* add_adam_eve.py: the content loop; returns content_html
AE_Collect(nodes, alive, nohref, i) ==
    IF i > Len(nodes) THEN <<>>
    ELSE IF i \in alive /\ nodes[i].tag \in Collected
         THEN LET text == Strip(GetText(nodes, alive, i))
              IN IF text # <<>> /\ StrLen(text) > MinElementText
                 THEN LET nh == nohref \cup LinksBelow(nodes, alive, i)
                      IN Str(nodes, alive, nh, i) \o <<"\n">>
                         \o AE_Collect(nodes, alive, nh, i + 1)
                 ELSE AE_Collect(nodes, alive, nohref, i + 1)
         ELSE AE_Collect(nodes, alive, nohref, i + 1)

RECURSIVE BP_Collect(_, _, _)
\* create_website.py, improve_website.py: the content loop; returns content_html
BP_Collect(nodes, alive, i) ==
    IF i > Len(nodes) THEN <<>>
    ELSE IF i \in alive /\ nodes[i].tag \in Collected
            /\ Strip(GetText(nodes, alive, i)) # <<>>
         THEN Str(nodes, alive, {}, i) \o <<"\n">> \o BP_Collect(nodes, alive, i + 1)
         ELSE BP_Collect(nodes, alive, i + 1)

Empty == [title |-> <<>>, fragment |-> <<>>]

\* AE_extract_clean_content without the test for a missing body: the elements
\* of the document are cleaned and collected and the metadata title is returned
AE_extract_any_document(d) ==
    LET title == IF d.meta # "none" /\ d.og # <<>> THEN Replace(d.og, Suffix) ELSE <<>>
        a0 == DOMAIN d.nodes
        a1 == RemoveChrome(d.nodes, a0, 1)
        a2 == AE_RemoveDecorative(d.nodes, a1, 1)
    IN [title |-> title, fragment |-> AE_Collect(d.nodes, a2, {}, 1)]

\* add_adam_eve.extract_clean_content
AE_extract_clean_content(d) ==
    LET title == IF d.meta # "none" /\ d.og # <<>> THEN Replace(d.og, Suffix) ELSE <<>>
        a0 == DOMAIN d.nodes
        a1 == RemoveChrome(d.nodes, a0, 1)
        a2 == AE_RemoveDecorative(d.nodes, a1, 1)
    IN IF ~d.hasBody THEN Empty
       ELSE [title |-> title, fragment |-> AE_Collect(d.nodes, a2, {}, 1)]

\* BP_extract_clean_content taking the title from the og:title element of the
\* head when there is one
BP_extract_metadata_first(d) ==
    LET a0 == DOMAIN d.nodes
        a1 == RemoveChrome(d.nodes, a0, 1)
        a2 == BP_RemoveDecorative(d.nodes, a1, 1)
    IN IF ~d.hasBody THEN Empty
       ELSE [title |-> IF d.meta # "none" /\ d.og # <<>> THEN Replace(d.og, Suffix)
                       ELSE HeadingTitle(d.nodes, a2, 1, <<>>),
             fragment |-> BP_Collect(d.nodes, a2, 1)]

\* BookParser.extract_clean_content (create_website.py)
BP_extract_clean_content(d) ==
    LET a0 == DOMAIN d.nodes
        a1 == RemoveChrome(d.nodes, a0, 1)
        a2 == BP_RemoveDecorative(d.nodes, a1, 1)
    IN IF ~d.hasBody THEN Empty
       ELSE [title |-> HeadingTitle(d.nodes, a2, 1, <<>>),
             fragment |-> BP_Collect(d.nodes, a2, 1)]

\* improve_website.extract_clean_content: the head is destroyed before the
\* metadata element is looked up, so only one outside the head is found
IW_extract_clean_content(d) ==
    LET a0 == DOMAIN d.nodes
        a1 == RemoveChrome(d.nodes, a0, 1)
        a2 == BP_RemoveDecorative(d.nodes, a1, 1)
        og_title == d.meta = "loose"
        t0 == IF og_title THEN Replace(d.og, Suffix) ELSE <<>>
    IN IF ~d.hasBody THEN Empty
       ELSE [title |-> IF t0 # <<>> THEN t0 ELSE HeadingTitle(d.nodes, a2, 1, <<>>),
             fragment |-> BP_Collect(d.nodes, a2, 1)]

-----------------------------------------------------------------------------
(* The documents the extractor is run on *)

Node(tag, text, href) == [tag |-> tag, text |-> text, href |-> href, parent |-> 0]

NodeKinds ==
    {Node("center", <<>>, FALSE), Node("div", <<>>, FALSE),
     Node("hr", <<>>, FALSE), Node("script", <<>>, FALSE),
     Node("a", <<"Next">>, TRUE),
     Node("p", <<" ", "Chapter II", " ">>, FALSE),
     Node("p", <<MidText>>, FALSE),
     Node("p", <<LongText>>, FALSE),
     Node("h1", <<Umbrella>>, FALSE),
     Node("h1", <<"The First Book of Adam and Eve">>, FALSE),
     Node("h4", <<"Chapter III">>, FALSE)}

RECURSIVE OpenAt(_, _)
\* the elements still open after element i was read: i itself unless it is void,
\* and its ancestors
OpenAt(ns, i) ==
    IF i = 0 THEN {0}
    ELSE (IF ns[i].tag \in VoidTags THEN {} ELSE {i}) \cup OpenAt(ns, ns[i].parent)

MetaChoices ==
    {[meta |-> "none", og |-> <<>>],
     [meta |-> "head", og |-> <<>>],
     [meta |-> "head", og |-> <<"Chapter II", Suffix>>],
     [meta |-> "loose", og |-> <<"Chapter II", Suffix>>]}

Document(m, hasBody, nodes) ==
    [meta |-> m.meta, og |-> m.og, hasBody |-> hasBody, nodes |-> nodes]

NoDoc == Document([meta |-> "none", og |-> <<>>], FALSE, <<>>)

-----------------------------------------------------------------------------
(* The source directory *)

\* a file name: fbe005.htm is [stem |-> "fbe", num |-> 5, ext |-> "htm"]
Page(n) == [stem |-> "fbe", num |-> n, ext |-> "htm"]
IndexFile == [stem |-> "index", num |-> 0, ext |-> "htm"]
PageIdxFile == [stem |-> "pageidx", num |-> 0, ext |-> "htm"]

FirstPage == 5
TitlePage == 3

\* the names a source directory may hold: one front-matter page, the index and
\* NumPages pages
Names == {Page(TitlePage), IndexFile} \cup {Page(FirstPage + i) : i \in 0..(NumPages - 1)}

\* the order of str on these names (the number is zero-padded to three digits)
NameLess(a, b) ==
    \/ a.stem = "fbe" /\ b.stem # "fbe"
    \/ a.stem = b.stem /\ a.num < b.num

RECURSIVE Insert(_, _)
\* x put before the first name of the sorted list s that it is less than
Insert(x, s) ==
    IF s = <<>> THEN <<x>>
    ELSE IF NameLess(x, Head(s)) THEN <<x>> \o s
    ELSE <<Head(s)>> \o Insert(x, Tail(s))

\* Sorted left out: the list stays in the order of the listing
SortedAsListed(s) == s

RECURSIVE Sorted(_)
\* sorted(list)
Sorted(s) == IF s = <<>> THEN <<>> ELSE Insert(Head(s), Sorted(Tail(s)))

\* the names os.listdir returns for directory d
Present(d) == {f \in DOMAIN d : d[f].state # "absent"}

RECURSIVE Orders(_)
\* os.listdir promises no order: every arrangement of the names
Orders(S) ==
    IF S = {} THEN {<<>>}
    ELSE UNION {{<<x>> \o t : t \in Orders(S \ {x})} : x \in S}

RECURSIVE Descending(_)
\* one of them: the names from the last to the first
Descending(S) ==
    IF S = {} THEN <<>>
    ELSE LET m == CHOOSE x \in S : \A y \in S \ {x} : NameLess(y, x)
         IN <<m>> \o Descending(S \ {m})

NoMeta == [meta |-> "none", og |-> <<>>]

\* a page with one heading and one paragraph
TitledPage(heading) ==
    Document(NoMeta, TRUE, <<Node("h1", heading, FALSE), Node("p", <<MidText>>, FALSE)>>)

\* the pages the directory is filled with
Corpus ==
    {TitledPage(<<"The First Book of Adam and Eve">>),
     TitledPage(<<"The Second Book of Adam and Eve">>),
     TitledPage(<<"The Second Book of Adam and Eve", " ", "The First Book of Adam and Eve">>),
     TitledPage(<<"The Testaments of the Twelve Patriarchs">>),
     TitledPage(<<"Chapter III">>),
     Document(NoMeta, TRUE, <<Node("p", <<LongText>>, FALSE)>>),
     Document(NoMeta, FALSE, <<>>)}

Absent == [state |-> "absent", doc |-> NoDoc]
Unreadable == [state |-> "unreadable", doc |-> NoDoc]
Readable(d) == [state |-> "ok", doc |-> d]

\* a front-matter or index file is there or not; the scan never reads it
FixedFiles == {Page(TitlePage), IndexFile}
FixedContents == {Absent, Readable(TitledPage(<<Umbrella>>))}

\* a page is missing, cannot be read, or holds one of the pages above
PageContents == {Absent, Unreadable} \cup {Readable(d) : d \in Corpus}

Directories ==
    {fixed @@ pages : fixed \in [FixedFiles -> FixedContents],
                      pages \in [Names \ FixedFiles -> PageContents]}

-----------------------------------------------------------------------------
(* BookParser.identify_book_sections *)

Buckets ==
    <<"title_pages", "first_book_adam_eve", "second_book_adam_eve", "secrets_enoch",
      "psalms_solomon", "odes_solomon", "letter_aristeas", "fourth_maccabees",
      "story_ahikar", "testaments_patriarchs", "index_pages">>

BucketSet == {Buckets[i] : i \in DOMAIN Buckets}

title_pages == <<Page(0), Page(1), Page(2), Page(3), Page(4)>>
index_pages == <<IndexFile, PageIdxFile>>

\* book_sections as first built
InitialSections ==
    [b \in BucketSet |->
        IF b = "title_pages" THEN title_pages
        ELSE IF b = "index_pages" THEN index_pages ELSE <<>>]

InSeq(x, s) == \E i \in DOMAIN s : s[i] = x

\* [f for f in os.listdir(...) if f.endswith('.htm') and f.startswith('fbe')]
Listed(l) == SelectSeq(l, LAMBDA f : f.ext = "htm" /\ f.stem = "fbe")

\* Excluded with the test dropped: every listed file is visited
ExcludedNever(sections, f) == FALSE

\* Excluded with the test against the front-matter list left out
ExcludedIndexOnly(sections, f) == InSeq(f, sections["index_pages"])

\* filename in book_sections['title_pages'] or filename in book_sections['index_pages']
Excluded(sections, f) == InSeq(f, sections["title_pages"]) \/ InSeq(f, sections["index_pages"])

\* Classify with the last test of the chain moved to the front
ClassifyTestamentFirst(t, section) ==
    IF Contains(t, "testament") THEN "testaments_patriarchs"
    ELSE IF Contains(t, "first book of adam") THEN "first_book_adam_eve"
    ELSE IF Contains(t, "second book of adam") THEN "second_book_adam_eve"
    ELSE IF Contains(t, "secrets of enoch") \/ Contains(t, "book of the secrets of enoch")
         THEN "secrets_enoch"
    ELSE IF Contains(t, "psalms of solomon") THEN "psalms_solomon"
    ELSE IF Contains(t, "odes of solomon") THEN "odes_solomon"
    ELSE IF Contains(t, "letter of aristeas") THEN "letter_aristeas"
    ELSE IF Contains(t, "fourth book of maccabees") \/ Contains(t, "maccabees")
         THEN "fourth_maccabees"
    ELSE IF Contains(t, "story of ahikar") \/ Contains(t, "ahikar") THEN "story_ahikar"
    ELSE section

\* the if/elif chain over title_lower
Classify(t, section) ==
    IF Contains(t, "first book of adam") THEN "first_book_adam_eve"
    ELSE IF Contains(t, "second book of adam") THEN "second_book_adam_eve"
    ELSE IF Contains(t, "secrets of enoch") \/ Contains(t, "book of the secrets of enoch")
         THEN "secrets_enoch"
    ELSE IF Contains(t, "psalms of solomon") THEN "psalms_solomon"
    ELSE IF Contains(t, "odes of solomon") THEN "odes_solomon"
    ELSE IF Contains(t, "letter of aristeas") THEN "letter_aristeas"
    ELSE IF Contains(t, "fourth book of maccabees") \/ Contains(t, "maccabees")
         THEN "fourth_maccabees"
    ELSE IF Contains(t, "story of ahikar") \/ Contains(t, "ahikar") THEN "story_ahikar"
    ELSE IF Contains(t, "testament") THEN "testaments_patriarchs"
    ELSE section

\* book_sections[current_section].append(filename)
AppendTo(sections, section, f) == [sections EXCEPT ![section] = Append(@, f)]

\* VisitFile with the append made before the chain: the file lands in the bucket
\* that was current when it was reached
VisitFileAppendFirst(sections, section, t, f) ==
    [section |-> Classify(t, section), sections |-> AppendTo(sections, section, f)]

\* VisitFile with the cursor falling back to the default bucket on a title that
\* matches no keyword
VisitFileResetting(sections, section, t, f) ==
    LET c == Classify(t, "title_pages")
    IN [section |-> c, sections |-> AppendTo(sections, c, f)]

\* lines 86-107: the chain moves the cursor, then the file name is appended to
\* the bucket the cursor names
VisitFile(sections, section, t, f) ==
    LET c == Classify(t, section)
    IN [section |-> c, sections |-> AppendTo(sections, c, f)]

\* no index page yet
NoIndex == [written |-> FALSE, cards |-> <<>>]

\* no earlier run
NoRun == [ran |-> FALSE, book_sections |-> InitialSections, books_data |-> <<>>]

\* the output directory before a run
NothingWritten ==
    /\ books_data = <<>>
    /\ book_pages = {}
    /\ index_page = NoIndex
    /\ previous = NoRun

\* improve_website has not run
NothingCollected ==
    /\ adam_eve_files = <<>>
    /\ first_book_files = <<>>
    /\ second_book_files = <<>>

Init ==
    /\ dir \in Directories
    /\ listing = Descending(Present(dir))
    /\ doc = NoDoc
    /\ variant = "none"
    /\ result = Empty
    /\ html_files = <<>>
    /\ idx = 0
    /\ current_section = "title_pages"
    /\ book_sections = InitialSections
    /\ title_lower = <<>>
    /\ NothingWritten
    /\ NothingCollected
    /\ pc = "start"

\* lines 58-75: the table, the sorted scan list and the cursor
ScanStart ==
    /\ pc = "start"
    /\ book_sections' = InitialSections
    /\ html_files' = Sorted(Listed(listing))
    /\ current_section' = "title_pages"
    /\ idx' = 1
    /\ pc' = "scan"
    /\ UNCHANGED <<doc, variant, result, dir, listing, title_lower, Site, Split>>

\* lines 77-78: a front-matter or index file name is passed over
ScanSkip ==
    /\ pc = "scan"
    /\ idx <= Len(html_files)
    /\ Excluded(book_sections, html_files[idx])
    /\ idx' = idx + 1
    /\ UNCHANGED <<doc, variant, result, dir, listing, html_files, current_section,
                   book_sections, title_lower, pc, Site, Split>>

\* lines 81-107: the file is read, its title classified, its name appended
ScanVisit ==
    /\ pc = "scan"
    /\ idx <= Len(html_files)
    /\ ~Excluded(book_sections, html_files[idx])
    /\ dir[html_files[idx]].state = "ok"
    /\ LET r == BP_extract_clean_content(dir[html_files[idx]].doc)
           t == LowerText(r.title)
           v == VisitFile(book_sections, current_section, t, html_files[idx])
       IN /\ doc' = dir[html_files[idx]].doc
          /\ variant' = "create_website"
          /\ result' = r
          /\ title_lower' = t
          /\ current_section' = v.section
          /\ book_sections' = v.sections
    /\ idx' = idx + 1
    /\ UNCHANGED <<dir, listing, html_files, pc, Site, Split>>

\* ScanError with the file name filed under the cursor before the read
ScanErrorAppending ==
    /\ pc = "scan"
    /\ idx <= Len(html_files)
    /\ ~Excluded(book_sections, html_files[idx])
    /\ dir[html_files[idx]].state = "unreadable"
    /\ book_sections' = AppendTo(book_sections, current_section, html_files[idx])
    /\ idx' = idx + 1
    /\ UNCHANGED <<doc, variant, result, dir, listing, html_files, current_section,
                   title_lower, pc, Site, Split>>

\* lines 109-110: the read raised; the file is reported and left out
ScanError ==
    /\ pc = "scan"
    /\ idx <= Len(html_files)
    /\ ~Excluded(book_sections, html_files[idx])
    /\ dir[html_files[idx]].state = "unreadable"
    /\ idx' = idx + 1
    /\ UNCHANGED <<doc, variant, result, dir, listing, html_files, current_section,
                   book_sections, title_lower, pc, Site, Split>>

\* line 112: return book_sections
ScanReturn ==
    /\ pc = "scan"
    /\ idx > Len(html_files)
    /\ pc' = "done"
    /\ UNCHANGED <<doc, variant, result, dir, listing, html_files, idx, current_section,
                   book_sections, title_lower, Site, Split>>

-----------------------------------------------------------------------------
(* BookParser.generate_modern_website *)

\* the chapter record built from a file and what was extracted from it
Chapter(f, r) == [filename |-> f, title |-> r.title, content |-> r.fragment]

\* open(source_dir / filename) and f.read() return
Opens(d, f) == f \in DOMAIN d /\ d[f].state = "ok"

\* BP_valid with the title left out of the test
ValidFragmentOnly(r) == r.fragment # <<>>

\* if title and clean_html (create_website.py, improve_website.py)
BP_valid(r) == r.title # <<>> /\ r.fragment # <<>>

RECURSIVE BP_chaptersNewestFirst(_, _, _)
\* BP_chapters with each chapter put at the front of the list instead of its end
BP_chaptersNewestFirst(d, files, i) ==
    IF i > Len(files) THEN <<>>
    ELSE LET f == files[i]
             r == BP_extract_clean_content(d[f].doc)
         IN BP_chaptersNewestFirst(d, files, i + 1)
            \o (IF Opens(d, f) /\ BP_valid(r) THEN <<Chapter(f, r)>> ELSE <<>>)

RECURSIVE BP_chapters(_, _, _)
\* process_book_section, lines 151-167: the loop over the files of a section; a
\* file whose read raises is reported and the loop goes on
BP_chapters(d, files, i) ==
    IF i > Len(files) THEN <<>>
    ELSE LET f == files[i]
             r == BP_extract_clean_content(d[f].doc)
         IN (IF Opens(d, f) /\ BP_valid(r) THEN <<Chapter(f, r)>> ELSE <<>>)
            \o BP_chapters(d, files, i + 1)

\* process_book_section: book_data, or None (no book) without chapters
process_book_section(d, section_name, files) ==
    LET chapters == BP_chapters(d, files, 1)
    IN IF chapters # <<>> THEN <<[id |-> section_name, chapters |-> chapters]>> ELSE <<>>

RECURSIVE BooksFromEverySection(_, _, _)
\* BooksFrom without the test that passes over title_pages and index_pages
BooksFromEverySection(d, sections, i) ==
    IF i > Len(Buckets) THEN <<>>
    ELSE (IF sections[Buckets[i]] = <<>>
          THEN <<>>
          ELSE process_book_section(d, Buckets[i], sections[Buckets[i]]))
         \o BooksFromEverySection(d, sections, i + 1)

RECURSIVE BooksFromLastBucketFirst(_, _, _)
\* BooksFrom with the sections taken from the last of the table to the first
BooksFromLastBucketFirst(d, sections, i) ==
    IF i > Len(Buckets) THEN <<>>
    ELSE BooksFromLastBucketFirst(d, sections, i + 1)
         \o (IF Buckets[i] \in {"title_pages", "index_pages"} \/ sections[Buckets[i]] = <<>>
             THEN <<>>
             ELSE process_book_section(d, Buckets[i], sections[Buckets[i]]))

RECURSIVE BooksFrom(_, _, _)
\* lines 126-133: books_data, filled in the order of book_sections.items()
BooksFrom(d, sections, i) ==
    IF i > Len(Buckets) THEN <<>>
    ELSE (IF Buckets[i] \in {"title_pages", "index_pages"} \/ sections[Buckets[i]] = <<>>
          THEN <<>>
          ELSE process_book_section(d, Buckets[i], sections[Buckets[i]]))
         \o BooksFrom(d, sections, i + 1)

\* create_index_page: one card per book of books_data, with its chapter count
create_index_page(books) ==
    [written |-> TRUE,
     cards |-> [i \in DOMAIN books |->
                   [id |-> books[i].id, counted |-> TRUE,
                    chapter_count |-> Len(books[i].chapters)]]]

\* the targets of the options of a chapter-select control: the file names of the
\* chapters it lists
OptionTargets(chapters) == [i \in DOMAIN chapters |-> chapters[i].filename]

\* a book page written to books/<id>.html replaces the page of that name; it has
\* an option for every chapter and renders every chapter under its file name
WritePage(pages, id, chapters) ==
    {q \in pages : q.id # id}
    \cup {[id |-> id, chapters |-> chapters, options |-> OptionTargets(chapters)]}

RECURSIVE create_book_pages(_, _, _)
\* create_book_pages: one page per book of books_data
create_book_pages(pages, books, i) ==
    IF i > Len(books) THEN pages
    ELSE create_book_pages(WritePage(pages, books[i].id, books[i].chapters), books, i + 1)

\* lines 125-141: the sections the scan returned are made into books, the index
\* page and the book pages are written
GenerateWebsite ==
    /\ pc = "done"
    /\ books_data' = BooksFrom(dir, book_sections, 1)
    /\ index_page' = create_index_page(books_data')
    /\ book_pages' = create_book_pages(book_pages, books_data', 1)
    /\ pc' = "generated"
    /\ UNCHANGED <<doc, variant, result, dir, listing, html_files, idx, current_section,
                   book_sections, title_lower, previous, Split>>

Next ==
    \/ ScanStart \/ ScanSkip \/ ScanVisit \/ ScanError \/ ScanReturn
    \/ GenerateWebsite

Spec == Init /\ [][Next]_vars

-----------------------------------------------------------------------------
(* create_website.py run a second time on the same source directory *)

\* the directories it is run twice on: the front-matter page, and pages that are
\* unreadable or start or continue a book
RerunContents ==
    {Unreadable,
     Readable(TitledPage(<<"The First Book of Adam and Eve">>)),
     Readable(TitledPage(<<"The Second Book of Adam and Eve">>)),
     Readable(TitledPage(<<"Chapter III">>))}

RerunDirectories ==
    {fixed @@ pages :
        fixed \in {[f \in FixedFiles |->
                       IF f = IndexFile THEN Absent ELSE Readable(TitledPage(<<Umbrella>>))]},
        pages \in [Names \ FixedFiles -> RerunContents]}

InitRerun ==
    /\ dir \in RerunDirectories
    /\ listing = Descending(Present(dir))
    /\ doc = NoDoc
    /\ variant = "none"
    /\ result = Empty
    /\ html_files = <<>>
    /\ idx = 0
    /\ current_section = "title_pages"
    /\ book_sections = InitialSections
    /\ title_lower = <<>>
    /\ NothingWritten
    /\ NothingCollected
    /\ pc = "start"

\* the script is started again: the directory is as it was, os.listdir may give
\* its names in another order, and the pages written are still there
Rerun ==
    /\ pc = "generated"
    /\ ~previous.ran
    /\ previous' = [ran |-> TRUE, book_sections |-> book_sections,
                    books_data |-> books_data]
    /\ listing' \in Orders(Present(dir))
    /\ pc' = "start"
    /\ UNCHANGED <<doc, variant, result, dir, html_files, idx, current_section,
                   book_sections, title_lower, books_data, book_pages, index_page, Split>>

NextRerun == Next \/ Rerun

SpecRerun == InitRerun /\ [][NextRerun]_vars

-----------------------------------------------------------------------------
(* create_website.py run on a directory whose pages differ in their heads only *)

\* what the head of a page may hold: no og:title element, or one that names
\* another book than the heading of the body
HeadChoices ==
    {[meta |-> "none", og |-> <<>>],
     [meta |-> "head", og |-> <<"The Second Book of Adam and Eve", Suffix>>],
     [meta |-> "head", og |-> <<"The Book of the Secrets of Enoch", Suffix>>]}

\* document d with head h
WithHead(d, h) == [d EXCEPT !.meta = h.meta, !.og = h.og]

\* the directories that differ from d in the heads of its pages only
HeadVariants(d) ==
    {[f \in DOMAIN d |->
         IF f \notin FixedFiles /\ d[f].state = "ok"
         THEN Readable(WithHead(d[f].doc, h[f])) ELSE d[f]] :
     h \in [Names \ FixedFiles -> HeadChoices]}

\* the script is started on a directory with the same files and bodies and other
\* heads
ChangeHeads ==
    /\ pc = "generated"
    /\ ~previous.ran
    /\ previous' = [ran |-> TRUE, book_sections |-> book_sections,
                    books_data |-> books_data]
    /\ dir' \in HeadVariants(dir)
    /\ pc' = "start"
    /\ UNCHANGED <<doc, variant, result, listing, html_files, idx, current_section,
                   book_sections, title_lower, books_data, book_pages, index_page, Split>>

NextHeads == Next \/ ChangeHeads

SpecHeads == InitRerun /\ [][NextHeads]_vars

-----------------------------------------------------------------------------
(* add_adam_eve.py and improve_website.py: the source directories they run on *)

\* a page whose head carries an og:title element
MetaPage(og, nodes) == Document([meta |-> "head", og |-> og], TRUE, nodes)

FirstTitle == <<"The First Book of Adam and Eve">>
SecondTitle == <<"The Second Book of Adam and Eve">>
EnochTitle == <<"The Book of the Secrets of Enoch">>

MetaCorpus ==
    {MetaPage(FirstTitle \o <<Suffix>>,
              <<Node("h1", FirstTitle, FALSE), Node("p", <<MidText>>, FALSE)>>),
     MetaPage(FirstTitle \o <<Suffix>>, <<Node("p", <<" ", "Chapter II", " ">>, FALSE)>>),
     MetaPage(FirstTitle \o <<Suffix>>, <<Node("p", <<LongText>>, FALSE)>>),
     MetaPage(SecondTitle \o <<Suffix>>,
              <<Node("h1", SecondTitle, FALSE), Node("p", <<MidText>>, FALSE)>>),
     MetaPage(EnochTitle \o <<Suffix>>,
              <<Node("h1", EnochTitle, FALSE), Node("p", <<MidText>>, FALSE)>>),
     Document([meta |-> "head", og |-> FirstTitle \o <<Suffix>>], FALSE, <<>>),
     TitledPage(FirstTitle)}

MetaContents == {Absent, Unreadable} \cup {Readable(d) : d \in MetaCorpus}

\* range(5, 85) and range(85, 106)
FirstBookLast == 84
SecondBookFirst == 85
SecondBookLast == 105

\* add_adam_eve.py runs on two pages of the first range and one of the second
AE_Names == {Page(FirstPage), Page(FirstPage + 1), Page(SecondBookFirst)}

AE_Directories == [AE_Names -> MetaContents]

\* improve_website.py runs on the five front-matter pages, the last of which may
\* be missing, and NumPages pages after them
FrontPages == {Page(n) : n \in 0..4}
IW_Pages == {Page(FirstPage + i) : i \in 0..(NumPages - 1)}

IW_Directories ==
    {front @@ pages :
        front \in {[f \in FrontPages |-> Readable(TitledPage(<<Umbrella>>))],
                   [f \in FrontPages |-> IF f = Page(4) THEN Absent
                                         ELSE Readable(TitledPage(<<Umbrella>>))]},
        pages \in [IW_Pages -> MetaContents]}

-----------------------------------------------------------------------------
(* add_adam_eve.py *)

\* if title and clean_html.strip()
AE_valid(r) == r.title # <<>> /\ Strip(r.fragment) # <<>>

RECURSIVE AE_chapters(_, _, _)
\* create_book, lines 43-58
AE_chapters(d, files, i) ==
    IF i > Len(files) THEN <<>>
    ELSE LET f == files[i]
             r == AE_extract_clean_content(d[f].doc)
         IN (IF Opens(d, f) /\ AE_valid(r) THEN <<Chapter(f, r)>> ELSE <<>>)
            \o AE_chapters(d, files, i + 1)

\* for i, chapter in enumerate(chapters[:20])
DropdownLimit == 20

\* create_book_html with an option for every chapter
create_book_html_every_option(pages, book_id, chapters) ==
    WritePage(pages, book_id, chapters)

\* add_adam_eve.create_book_html: the page has options for the chapters of
\* chapters[:20] and renders all chapters
create_book_html(pages, book_id, chapters) ==
    {q \in pages : q.id # book_id}
    \cup {[id |-> book_id, chapters |-> chapters,
           options |-> OptionTargets(SubSeq(chapters, 1,
                          IF Len(chapters) < DropdownLimit THEN Len(chapters)
                          ELSE DropdownLimit))]}

\* create_book with the page written whatever the chapter list holds
create_book_always(pages, d, book_id, files) ==
    create_book_html(pages, book_id, AE_chapters(d, files, 1))

\* create_book: the page is written when there are chapters
create_book(pages, d, book_id, files) ==
    LET chapters == AE_chapters(d, files, 1)
    IN IF chapters # <<>> THEN create_book_html(pages, book_id, chapters) ELSE pages

\* [f for f in os.listdir(source_dir) if f.endswith('.htm')]
AE_all_files(l) == {l[i] : i \in {j \in DOMAIN l : l[j].ext = "htm"}}

RECURSIVE RangeFiles(_, _, _)
\* the names fbe<lo>.htm .. fbe<hi>.htm that are in all_files, in this order
RangeFiles(all_files, lo, hi) ==
    IF lo > hi THEN <<>>
    ELSE (IF Page(lo) \in all_files THEN <<Page(lo)>> ELSE <<>>)
         \o RangeFiles(all_files, lo + 1, hi)

\* add_adam_eve_books: lines 30-31 index both lists at [0] and [-1], which raises
\* IndexError on an empty list before any book is created
add_adam_eve_books ==
    /\ pc = "add_adam_eve"
    /\ variant' = "add_adam_eve"
    /\ LET all_files == AE_all_files(listing)
           first_adam_files == RangeFiles(all_files, FirstPage, FirstBookLast)
           second_adam_files == RangeFiles(all_files, SecondBookFirst, SecondBookLast)
       IN IF first_adam_files = <<>> \/ second_adam_files = <<>>
          THEN /\ pc' = "aborted"
               /\ book_pages' = book_pages
          ELSE /\ pc' = "written"
               /\ book_pages' =
                     create_book(create_book(book_pages, dir, "first_book_adam_eve",
                                             first_adam_files),
                                 dir, "second_book_adam_eve", second_adam_files)
    /\ UNCHANGED <<doc, result, dir, listing, html_files, idx, current_section, book_sections,
                   title_lower, books_data, index_page, previous, Split>>

InitAE ==
    /\ dir \in AE_Directories
    /\ listing = Descending(Present(dir))
    /\ doc = NoDoc
    /\ variant = "none"
    /\ result = Empty
    /\ html_files = <<>>
    /\ idx = 0
    /\ current_section = "title_pages"
    /\ book_sections = InitialSections
    /\ title_lower = <<>>
    /\ NothingWritten
    /\ NothingCollected
    /\ pc = "add_adam_eve"

\* a page of the first book that gives a chapter
ChapterPage == MetaPage(FirstTitle \o <<Suffix>>, <<Node("p", <<LongText>>, FALSE)>>)

\* the names of a directory with a long first book: its first MaxFirstBookFiles
\* pages and the first page of the second book
BookNames ==
    {Page(FirstPage + i) : i \in 0..(MaxFirstBookFiles - 1)} \cup {Page(SecondBookFirst)}

\* the first n pages of the first book are there and give a chapter each, but
\* for page k, which is missing, unreadable or without body
BookDirectory(n, k, odd, second) ==
    [f \in BookNames |->
        IF f = Page(SecondBookFirst) THEN second
        ELSE IF f.num - FirstPage >= n THEN Absent
        ELSE IF f.num - FirstPage + 1 = k THEN odd
        ELSE Readable(ChapterPage)]

BookDirectories ==
    {BookDirectory(n, k, odd, second) :
        n \in 0..MaxFirstBookFiles, k \in 0..MaxFirstBookFiles,
        odd \in {Absent, Unreadable,
                 Readable(Document([meta |-> "head", og |-> FirstTitle \o <<Suffix>>],
                                   FALSE, <<>>))},
        second \in {Absent, Readable(ChapterPage)}}

InitBookPage ==
    /\ dir \in BookDirectories
    /\ listing = Descending(Present(dir))
    /\ doc = NoDoc
    /\ variant = "none"
    /\ result = Empty
    /\ html_files = <<>>
    /\ idx = 0
    /\ current_section = "title_pages"
    /\ book_sections = InitialSections
    /\ title_lower = <<>>
    /\ NothingWritten
    /\ NothingCollected
    /\ pc = "add_adam_eve"

NextBookPage == add_adam_eve_books

\* add_adam_eve.py on a directory with a long first book
SpecBookPage == InitBookPage /\ [][NextBookPage]_vars

-----------------------------------------------------------------------------
(* improve_website.py *)

\* lines 28-36: the title the scan reads is the content of the og:title element,
\* site-name suffix removed; the pages modelled have no title element
IW_scan_title(d) == IF d.meta # "none" THEN Replace(d.og, Suffix) ELSE <<>>

\* sorted([f for f in os.listdir(source_dir) if f.endswith('.htm') and
\*         f.startswith('fbe') and f[3:6].isdigit()])
IW_html_files(l) == Sorted(Listed(l))

\* html_files[5:]
AfterTitlePages(files) == SubSeq(files, 6, Len(files))

RECURSIVE IW_scanWithoutBreak(_, _, _, _)
\* IW_scan going on after an Enoch title instead of leaving the loop
IW_scanWithoutBreak(d, files, i, collected) ==
    IF i > Len(files) THEN collected
    ELSE IF ~Opens(d, files[i]) THEN IW_scanWithoutBreak(d, files, i + 1, collected)
    ELSE LET t == LowerText(IW_scan_title(d[files[i]].doc))
         IN IF Contains(t, "secrets of enoch") \/ Contains(t, "book of the secrets")
            THEN IW_scanWithoutBreak(d, files, i + 1, collected)
            ELSE IF Contains(t, "adam") /\ Contains(t, "eve")
                 THEN IW_scanWithoutBreak(d, files, i + 1, Append(collected, files[i]))
                 ELSE IW_scanWithoutBreak(d, files, i + 1, collected)

RECURSIVE IW_scan(_, _, _, _)
\* lines 23-48: the loop that fills adam_eve_files (collected) and breaks at the first Enoch
\* title; a file whose read raises is reported and the loop goes on
IW_scan(d, files, i, collected) ==
    IF i > Len(files) THEN collected
    ELSE IF ~Opens(d, files[i]) THEN IW_scan(d, files, i + 1, collected)
    ELSE LET t == LowerText(IW_scan_title(d[files[i]].doc))
         IN IF Contains(t, "secrets of enoch") \/ Contains(t, "book of the secrets")
            THEN collected
            ELSE IF Contains(t, "adam") /\ Contains(t, "eve")
                 THEN IW_scan(d, files, i + 1, Append(collected, files[i]))
                 ELSE IW_scan(d, files, i + 1, collected)

RECURSIVE IW_splitPerTitle(_, _, _, _, _)
\* IW_split with current_book set from each title alone: "second" for a title of
\* the second book and "first" for any other
IW_splitPerTitle(d, files, i, current_book, split) ==
    IF i > Len(files) THEN split
    ELSE IF ~Opens(d, files[i]) THEN IW_splitPerTitle(d, files, i + 1, current_book, split)
    ELSE LET t == LowerText(IW_scan_title(d[files[i]].doc))
             b == IF Contains(t, "second book of adam") THEN "second" ELSE "first"
         IN IW_splitPerTitle(d, files, i + 1, b,
                     IF b = "first"
                     THEN [split EXCEPT !.first = Append(@, files[i])]
                     ELSE [split EXCEPT !.second = Append(@, files[i])])

RECURSIVE IW_split(_, _, _, _, _)
\* lines 54-82: first_book_files and second_book_files
IW_split(d, files, i, current_book, split) ==
    IF i > Len(files) THEN split
    ELSE IF ~Opens(d, files[i]) THEN IW_split(d, files, i + 1, current_book, split)
    ELSE LET t == LowerText(IW_scan_title(d[files[i]].doc))
             b == IF Contains(t, "second book of adam") THEN "second" ELSE current_book
         IN IW_split(d, files, i + 1, b,
                     IF b = "first"
                     THEN [split EXCEPT !.first = Append(@, files[i])]
                     ELSE [split EXCEPT !.second = Append(@, files[i])])

RECURSIVE IW_chapters(_, _, _)
\* create_adam_eve_book, lines 98-113
IW_chapters(d, files, i) ==
    IF i > Len(files) THEN <<>>
    ELSE LET f == files[i]
             r == IW_extract_clean_content(d[f].doc)
         IN (IF Opens(d, f) /\ BP_valid(r) THEN <<Chapter(f, r)>> ELSE <<>>)
            \o IW_chapters(d, files, i + 1)

\* create_adam_eve_book: without chapters it returns before the page is written
create_adam_eve_book(pages, d, book_id, files) ==
    LET chapters == IW_chapters(d, files, 1)
    IN IF chapters = <<>> THEN pages ELSE WritePage(pages, book_id, chapters)

\* update_index_page: a fixed page with a card for each of the nine books and no
\* chapter count
update_index_page ==
    [written |-> TRUE,
     cards |-> [i \in 1..(Len(Buckets) - 2) |->
                   [id |-> Buckets[i + 1], counted |-> FALSE, chapter_count |-> 0]]]

\* improve_website, lines 12-92: the scan, the split, the two books, the index
improve_website ==
    /\ pc = "improve_website"
    /\ variant' = "improve_website"
    /\ adam_eve_files' = IW_scan(dir, AfterTitlePages(IW_html_files(listing)), 1, <<>>)
    /\ LET split == IW_split(dir, adam_eve_files', 1, "first",
                             [first |-> <<>>, second |-> <<>>])
       IN /\ first_book_files' = split.first
          /\ second_book_files' = split.second
    /\ book_pages' =
          create_adam_eve_book(
              create_adam_eve_book(book_pages, dir, "first_book_adam_eve", first_book_files'),
              dir, "second_book_adam_eve", second_book_files')
    /\ index_page' = update_index_page
    /\ pc' = "written"
    /\ UNCHANGED <<doc, result, dir, listing, html_files, idx, current_section, book_sections,
                   title_lower, books_data, previous>>

InitIW ==
    /\ dir \in IW_Directories
    /\ listing = Descending(Present(dir))
    /\ doc = NoDoc
    /\ variant = "none"
    /\ result = Empty
    /\ html_files = <<>>
    /\ idx = 0
    /\ current_section = "title_pages"
    /\ book_sections = InitialSections
    /\ title_lower = <<>>
    /\ NothingWritten
    /\ NothingCollected
    /\ pc = "improve_website"

-----------------------------------------------------------------------------
(* The three scripts, each on its source directory *)

InitSite == Init \/ InitAE \/ InitIW

NextSite == Next \/ add_adam_eve_books \/ improve_website

SpecSite == InitSite /\ [][NextSite]_vars

-----------------------------------------------------------------------------
(* The keyword chain applied to one title *)

TitleVocabulary ==
    {"The First Book of Adam and Eve", "The Second Book of Adam and Eve",
     "The Book of the Secrets of Enoch", "Secrets of Enoch", "The Psalms of Solomon",
     "The Odes of Solomon", "The Letter of Aristeas", "The Fourth Book of Maccabees",
     "Maccabees", "The Story of Ahikar", "Ahikar",
     "The Testaments of the Twelve Patriarchs", "Chapter III", Umbrella}

Titles == UNION {[1..n -> TitleVocabulary] : n \in 0..MaxTitleTokens}

\* the values the cursor takes: the default and the nine books
Cursors == BucketSet \ {"index_pages"}

InitClassify ==
    /\ \E t \in Titles : result = [title |-> t, fragment |-> <<>>]
    /\ current_section \in Cursors
    /\ doc = NoDoc
    /\ variant = "create_website"
    /\ dir = <<>>
    /\ listing = <<>>
    /\ html_files = <<>>
    /\ idx = 0
    /\ book_sections = InitialSections
    /\ title_lower = <<>>
    /\ NothingWritten
    /\ NothingCollected
    /\ pc = "titled"

\* lines 86-105: title_lower = title.lower() and the chain
ClassifyTitle ==
    /\ pc = "titled"
    /\ title_lower' = LowerText(result.title)
    /\ current_section' = Classify(title_lower', current_section)
    /\ pc' = "classified"
    /\ UNCHANGED <<doc, variant, result, dir, listing, html_files, idx, book_sections, Site, Split>>

NextClassify == ClassifyTitle

SpecClassify == InitClassify /\ [][NextClassify]_vars

-----------------------------------------------------------------------------
(* The extractor applied to one document *)

InitExtract ==
    /\ \E m \in MetaChoices, hasBody \in BOOLEAN : doc = Document(m, hasBody, <<>>)
    /\ variant = "none"
    /\ result = Empty
    /\ dir = <<>>
    /\ listing = <<>>
    /\ html_files = <<>>
    /\ idx = 0
    /\ current_section = "title_pages"
    /\ book_sections = InitialSections
    /\ title_lower = <<>>
    /\ NothingWritten
    /\ NothingCollected
    /\ pc = "parsing"

Segmenter == <<dir, listing, html_files, idx, current_section, book_sections, title_lower>>

\* the elements of a document without a body element
LooseKinds ==
    {Node("h1", <<"The First Book of Adam and Eve">>, FALSE),
     Node("p", <<LongText>>, FALSE)}

\* BeautifulSoup(html_content, 'html.parser'): the parser reads one more element of
\* the body (of the document, when it has no body element) and hangs it under one
\* of the elements still open
ParseElement ==
    /\ pc = "parsing"
    /\ Len(doc.nodes) < MaxNodes
    /\ \E k \in (IF doc.hasBody THEN NodeKinds ELSE LooseKinds),
          p \in OpenAt(doc.nodes, Len(doc.nodes)) :
          doc' = [doc EXCEPT !.nodes = Append(@, [k EXCEPT !.parent = p])]
    /\ UNCHANGED <<variant, result, pc, Segmenter, Site, Split>>

ExtractAE ==
    /\ pc = "parsing"
    /\ variant' = "add_adam_eve"
    /\ result' = AE_extract_clean_content(doc)
    /\ pc' = "extracted"
    /\ UNCHANGED <<doc, Segmenter, Site, Split>>

ExtractBP ==
    /\ pc = "parsing"
    /\ variant' = "create_website"
    /\ result' = BP_extract_clean_content(doc)
    /\ pc' = "extracted"
    /\ UNCHANGED <<doc, Segmenter, Site, Split>>

ExtractIW ==
    /\ pc = "parsing"
    /\ variant' = "improve_website"
    /\ result' = IW_extract_clean_content(doc)
    /\ pc' = "extracted"
    /\ UNCHANGED <<doc, Segmenter, Site, Split>>

NextExtract == ParseElement \/ ExtractAE \/ ExtractBP \/ ExtractIW

SpecExtract == InitExtract /\ [][NextExtract]_vars

\* the elements the cleaning steps decide on, and content to keep
ChromeKinds ==
    {Node("center", <<>>, FALSE), Node("div", <<>>, FALSE),
     Node("hr", <<>>, FALSE), Node("script", <<>>, FALSE),
     Node("nav", <<>>, FALSE), Node("style", <<>>, FALSE),
     Node("p", <<" ", "Chapter II", " ">>, FALSE),
     Node("p", <<LongText>>, FALSE),
     Node("h1", <<"The First Book of Adam and Eve">>, FALSE)}

\* the parser reads one more element of a page made of these
ParseChrome ==
    /\ pc = "parsing"
    /\ Len(doc.nodes) < MaxNodes
    /\ \E k \in (IF doc.hasBody THEN ChromeKinds ELSE LooseKinds),
          p \in OpenAt(doc.nodes, Len(doc.nodes)) :
          doc' = [doc EXCEPT !.nodes = Append(@, [k EXCEPT !.parent = p])]
    /\ UNCHANGED <<variant, result, pc, Segmenter, Site, Split>>

NextClean == ParseChrome \/ ExtractAE \/ ExtractBP \/ ExtractIW

\* the extractor applied to pages of scripts, styles, navigation, rules,
\* containers and content
SpecClean == InitExtract /\ [][NextClean]_vars

-----------------------------------------------------------------------------
(* Properties of the segmenter *)

\* the keywords in the order the claims give them; keyword i names Buckets[i + 1]
KeywordOrder ==
    <<"first book of adam", "second book of adam", "secrets of enoch",
      "psalms of solomon", "odes of solomon", "letter of aristeas", "maccabees",
      "ahikar", "testament">>

Matches(t) == {i \in DOMAIN KeywordOrder : Contains(t, KeywordOrder[i])}

Earliest(t) == CHOOSE i \in Matches(t) : \A j \in Matches(t) : i <= j

NamedBucket(t) == Buckets[Earliest(t) + 1]

FrontMatter(f) == f.stem = "fbe" /\ f.num \in 0..4

PagePattern(f) == f.stem = "fbe" /\ f.ext = "htm" /\ f.num \in 0..999

RECURSIVE CountIn(_, _)
CountIn(f, s) == IF s = <<>> THEN 0
                 ELSE (IF Head(s) = f THEN 1 ELSE 0) + CountIn(f, Tail(s))

RECURSIVE OccurrencesFrom(_, _)
OccurrencesFrom(f, i) ==
    IF i > Len(Buckets) THEN 0
    ELSE CountIn(f, book_sections[Buckets[i]]) + OccurrencesFrom(f, i + 1)

\* how often file f stands in the bucket lists, all buckets together
Occurrences(f) == OccurrencesFrom(f, 1)

\* the lower-cased title of the file the scan stands at
TitleAtCursor ==
    LowerText(BP_extract_clean_content(dir[html_files[idx]].doc).title)

\* this step visits a file that is read without error
VisitStep ==
    /\ pc = "scan"
    /\ idx \in DOMAIN html_files
    /\ ~FrontMatter(html_files[idx])
    /\ dir[html_files[idx]].state = "ok"
    /\ idx' = idx + 1

\* C1: buckets are contiguous in scan order: between two files of one bucket no
\* file was appended to another bucket
C1_BucketsContiguous ==
    \A b \in BucketSet : \A i, j, k \in DOMAIN html_files :
        (/\ i < j /\ j < k
         /\ ~FrontMatter(html_files[i]) /\ ~FrontMatter(html_files[j])
         /\ ~FrontMatter(html_files[k])
         /\ InSeq(html_files[i], book_sections[b])
         /\ InSeq(html_files[k], book_sections[b]))
        => ~(\E b2 \in BucketSet \ {b} : InSeq(html_files[j], book_sections[b2]))

\* C2 as stated: when the scan has returned, every page file of the scan list
\* stands in the bucket lists exactly once
C2_EveryFileExactlyOnce ==
    pc = "done" =>
        \A i \in DOMAIN html_files :
            PagePattern(html_files[i]) => Occurrences(html_files[i]) = 1

\* C2 amended: when the scan has returned, every page file of the scan list whose
\* read did not raise stands in the bucket lists exactly once, and a file whose
\* read raised stands in none
C2_ReadFilesExactlyOnce ==
    pc = "done" =>
        \A i \in DOMAIN html_files :
            PagePattern(html_files[i]) =>
                Occurrences(html_files[i]) =
                    IF ~FrontMatter(html_files[i])
                       /\ dir[html_files[i]].state = "unreadable"
                    THEN 0 ELSE 1

C2_Witness ==
    /\ pc = "done"
    /\ Len(html_files) = NumPages + 1
    /\ \E i \in DOMAIN html_files : dir[html_files[i]].state = "unreadable"
    /\ \E i \in DOMAIN html_files :
          InSeq(html_files[i], book_sections["second_book_adam_eve"])

\* C3: a visited file whose title matches a keyword is appended to the bucket
\* that keyword names and not to the bucket that was current before; the first
\* such file of a bucket is the first element of its list
C3_AppendedToNewBucket ==
    [][(VisitStep /\ Matches(TitleAtCursor) # {}) =>
          LET b == NamedBucket(TitleAtCursor)
              f == html_files[idx]
          IN /\ book_sections'[b] = Append(book_sections[b], f)
             /\ b # current_section =>
                    book_sections'[current_section] = book_sections[current_section]
             /\ book_sections[b] = <<>> => book_sections'[b][1] = f]_vars

C3_Witness ==
    /\ book_sections["first_book_adam_eve"] = <<Page(5)>>
    /\ book_sections["second_book_adam_eve"] = <<Page(6)>>
    /\ dir[Page(6)].doc = TitledPage(<<"The Second Book of Adam and Eve">>)
    /\ current_section = "second_book_adam_eve"

\* C4: visiting a file whose title matches no keyword leaves the cursor as it was
\* and appends the file to the bucket the cursor names; no other list changes
C4_StickyCursor ==
    [][(VisitStep /\ Matches(TitleAtCursor) = {}) =>
          /\ current_section' = current_section
          /\ book_sections' =
                [book_sections EXCEPT ![current_section] = Append(@, html_files[idx])]]_vars

C4_Witness ==
    /\ book_sections["first_book_adam_eve"] = <<Page(5), Page(6)>>
    /\ current_section = "first_book_adam_eve"
    /\ Matches(title_lower) = {}
    /\ title_lower = <<"chapter iii">>

\* C5: after the chain, a title holding keywords has moved the cursor to the
\* bucket of the earliest keyword of the fixed order, whatever else it holds
C5_FirstMatchWins ==
    pc = "classified" =>
        (Matches(LowerText(result.title)) # {} =>
            current_section = NamedBucket(LowerText(result.title)))

C5_Witness ==
    /\ pc = "classified"
    /\ result.title = <<"The Testaments of the Twelve Patriarchs",
                        "The Second Book of Adam and Eve">>
    /\ current_section = "second_book_adam_eve"

-----------------------------------------------------------------------------
(* Properties of the extractor *)

Extracted == pc = "extracted"

HasToken(s, t) == \E i \in DOMAIN s : s[i] = t

\* the elements of document d below element e
Below(d, e) == {i \in DOMAIN d.nodes : IsAnc(d.nodes, e, i)}

OwnTextLen(d, i) == StrLen(Strip(d.nodes[i].text))

\* heading i of document d has text and does not start with the umbrella title
QualifyingHeading(d, alive, i) ==
    /\ i \in alive
    /\ d.nodes[i].tag \in Headings
    /\ LET t == Strip(GetText(d.nodes, alive, i))
       IN t # <<>> /\ ~StartsWith(LowerText(t), "the forgotten books")

\* s without the site-name suffix at its end
StripTrailing(s, suf) ==
    IF s # <<>> /\ s[Len(s)] = suf THEN SubSeq(s, 1, Len(s) - 1) ELSE s

\* C6: a document with a metadata title in its head and a qualifying heading in
\* its body gets the metadata title, site-name suffix stripped, from every variant
C6_MetadataTitlePreferred ==
    (/\ Extracted
     /\ doc.hasBody
     /\ doc.meta = "head" /\ doc.og # <<>>
     /\ \E i \in DOMAIN doc.nodes : QualifyingHeading(doc, DOMAIN doc.nodes, i))
    => result.title = StripTrailing(doc.og, Suffix)

\* the body as create_website.py and improve_website.py leave it before the
\* title is taken
Cleaned(d) == BP_RemoveDecorative(d.nodes, RemoveChrome(d.nodes, DOMAIN d.nodes, 1), 1)

\* C7: without a metadata title, the title is the text of the first qualifying
\* heading, and empty when no heading qualifies
C7_FirstQualifyingHeading ==
    (/\ Extracted
     /\ variant \in {"create_website", "improve_website"}
     /\ doc.hasBody
     /\ doc.meta = "none")
    => LET q == {i \in DOMAIN doc.nodes : QualifyingHeading(doc, Cleaned(doc), i)}
       IN IF q = {} THEN result.title = <<>>
          ELSE LET first == CHOOSE i \in q : \A j \in q : i <= j
               IN result.title = Strip(GetText(doc.nodes, Cleaned(doc), first))

\* the document's only centered container holds nothing but its only paragraph,
\* and that paragraph is shorter than 50 characters
OnlyShortParagraphCentered(d) ==
    \E c, q \in DOMAIN d.nodes :
        /\ d.nodes[c].tag = "center" /\ d.nodes[q].tag = "p"
        /\ \A i \in DOMAIN d.nodes : d.nodes[i].tag = "center" => i = c
        /\ \A i \in DOMAIN d.nodes : d.nodes[i].tag = "p" => i = q
        /\ Below(d, c) = {q}
        /\ Below(d, q) = {}
        /\ OwnTextLen(d, q) < MinCenterText

\* C8: in every variant a centered container holding only one paragraph shorter
\* than 50 characters is removed: neither appears in the fragment
C8_ShortCenterDropped ==
    (Extracted /\ doc.hasBody /\ OnlyShortParagraphCentered(doc))
    => ~HasToken(result.fragment, "<center>") /\ ~HasToken(result.fragment, "<p>")

\* centered container c has no heading 1-3 below it and no paragraph longer than
\* 50 characters
HeadinglessShort(d, c) ==
    /\ d.nodes[c].tag = "center"
    /\ \A i \in Below(d, c) :
          /\ d.nodes[i].tag \notin Headings13
          /\ d.nodes[i].tag = "p" => OwnTextLen(d, i) <= MinCenterText

\* C9: add_adam_eve removes a centered container without a heading 1-3 whose
\* paragraphs are all 50 characters or shorter, whatever the container's total
\* text: when every paragraph lies in such a container the fragment has none
C9_KeptOnlyForLongParagraph ==
    (/\ Extracted
     /\ variant = "add_adam_eve"
     /\ doc.hasBody
     /\ \A i \in DOMAIN doc.nodes :
           doc.nodes[i].tag = "p" =>
               \E c \in DOMAIN doc.nodes : IsAnc(doc.nodes, c, i) /\ HeadinglessShort(doc, c))
    => ~HasToken(result.fragment, "<p>")

\* C10: no link of the fragment carries an href, and every link of the fragment
\* still has its text
C10_NoHrefInFragment ==
    Extracted =>
        \A i \in DOMAIN result.fragment :
            /\ result.fragment[i] # "<a href>"
            /\ result.fragment[i] \in {"<a>", "<a href>"} =>
                   i < Len(result.fragment) /\ result.fragment[i + 1] = "Next"

\* the body as the variant that ran leaves it before the content loop
CleanedBy(v, d) ==
    IF v = "add_adam_eve"
    THEN AE_RemoveDecorative(d.nodes, RemoveChrome(d.nodes, DOMAIN d.nodes, 1), 1)
    ELSE Cleaned(d)

RECURSIVE EntryTags(_, _)
\* the opening tag of each entry of fragment f: an entry starts the fragment or
\* follows the line break that ends the entry before it
EntryTags(f, i) ==
    IF i > Len(f) THEN <<>>
    ELSE (IF i = 1 \/ f[i - 1] = "\n" THEN <<f[i]>> ELSE <<>>) \o EntryTags(f, i + 1)

RECURSIVE LongElements(_, _, _)
\* the opening tags, in document order, of the remaining heading, paragraph,
\* block-quote and div elements whose trimmed text is longer than 10 characters
LongElements(d, alive, i) ==
    IF i > Len(d.nodes) THEN <<>>
    ELSE (IF /\ i \in alive
             /\ d.nodes[i].tag \in Collected
             /\ StrLen(Strip(GetText(d.nodes, alive, i))) > MinElementText
          THEN <<"<" \o d.nodes[i].tag \o ">">> ELSE <<>>)
         \o LongElements(d, alive, i + 1)

\* C11: the entries of the fragment are, in document order, exactly the remaining
\* heading, paragraph, block-quote and div elements whose trimmed text is longer
\* than 10 characters
C11_ExactlyLongElements ==
    (Extracted /\ doc.hasBody)
    => EntryTags(result.fragment, 1) = LongElements(doc, CleanedBy(variant, doc), 1)

-----------------------------------------------------------------------------
(* Properties of the books and pages a run produces *)

\* the chapter lists a run has assembled: those of the returned books data and
\* those of the book pages written
ChapterLists ==
    {books_data[i].chapters : i \in DOMAIN books_data} \cup {q.chapters : q \in book_pages}

Filenames(chapters) == {chapters[i].filename : i \in DOMAIN chapters}

\* what the script that ran extracts from document d
ExtractedBy(v, d) ==
    CASE v = "add_adam_eve" -> AE_extract_clean_content(d)
      [] v = "improve_website" -> IW_extract_clean_content(d)
      [] OTHER -> BP_extract_clean_content(d)

\* the extraction of file f is unusable: its title is empty, or its fragment is
\* empty or white space only
Unusable(v, f) ==
    LET r == ExtractedBy(v, dir[f].doc)
    IN r.title = <<>> \/ Strip(r.fragment) = <<>>

\* the page written for book id holds a chapter made from file f
PageHolds(id, f) == \E q \in book_pages : q.id = id /\ f \in Filenames(q.chapters)

\* C12: every chapter of every book has a title and a fragment that are not
\* empty; a file whose extraction is unusable is the file of no chapter; and the
\* files after it are still processed: every readable file of a section of
\* create_website, and of the first range of add_adam_eve, whose extraction is
\* usable is a chapter of that book
C12_ChaptersValid ==
    /\ \A chapters \in ChapterLists : \A i \in DOMAIN chapters :
          /\ chapters[i].title # <<>>
          /\ chapters[i].content # <<>>
          /\ ~Unusable(variant, chapters[i].filename)
    /\ pc = "generated" =>
          \A b \in BucketSet \ {"title_pages", "index_pages"} :
              \A i \in DOMAIN book_sections[b] :
                  LET f == book_sections[b][i]
                  IN (Opens(dir, f) /\ ~Unusable("create_website", f)) => PageHolds(b, f)
    /\ (pc = "written" /\ variant = "add_adam_eve") =>
          \A f \in DOMAIN dir :
              (f.num <= FirstBookLast /\ Opens(dir, f) /\ ~Unusable("add_adam_eve", f))
              => PageHolds("first_book_adam_eve", f)

\* a section of create_website whose second file gave no chapter and whose third
\* file gave one
C12_Witness ==
    /\ pc = "generated"
    /\ book_sections["first_book_adam_eve"] = <<Page(5), Page(6), Page(7)>>
    /\ Unusable("create_website", Page(6))
    /\ \E q \in book_pages :
          /\ q.id = "first_book_adam_eve"
          /\ Len(q.chapters) = 2
          /\ q.chapters[2].filename = Page(7)

BookIds == BucketSet \ {"title_pages", "index_pages"}

\* book id is in the returned books data or has a page written
Emitted(id) ==
    \/ \E i \in DOMAIN books_data : books_data[i].id = id
    \/ \E q \in book_pages : q.id = id

\* some file among fs can be read and gives a usable extraction
SomeUsable(v, fs) == \E f \in fs : Opens(dir, f) /\ ~Unusable(v, f)

\* C13: no book of the returned books data and no page written has an empty
\* chapter list, and a book none of whose files gives a valid chapter is neither
\* in the books data nor written as a page
C13_EmptyBookOmitted ==
    /\ \A chapters \in ChapterLists : chapters # <<>>
    /\ pc = "generated" =>
          \A b \in BookIds :
              ~SomeUsable("create_website",
                          {book_sections[b][i] : i \in DOMAIN book_sections[b]})
              => ~Emitted(b)
    /\ (pc = "written" /\ variant = "add_adam_eve") =>
          /\ ~SomeUsable(variant, {f \in DOMAIN dir : f.num <= FirstBookLast})
                => ~Emitted("first_book_adam_eve")
          /\ ~SomeUsable(variant, {f \in DOMAIN dir : f.num >= SecondBookFirst})
                => ~Emitted("second_book_adam_eve")

\* add_adam_eve ran on a directory whose first-range files are there but give no
\* chapter: only the second book has a page
C13_Witness ==
    /\ pc = "written" /\ variant = "add_adam_eve"
    /\ Opens(dir, Page(5)) /\ Opens(dir, Page(6))
    /\ ~Emitted("first_book_adam_eve")
    /\ Emitted("second_book_adam_eve")

\* C14: the index page a run wrote has a card for exactly the books that run
\* wrote a page for, each with one chapter or more, and every card shows the
\* number of chapters of its book
C14_IndexListsNonEmptyBooks ==
    index_page.written =>
        /\ \A i \in DOMAIN index_page.cards :
              \E q \in book_pages :
                  /\ q.id = index_page.cards[i].id
                  /\ q.chapters # <<>>
                  /\ index_page.cards[i].counted
                  /\ index_page.cards[i].chapter_count = Len(q.chapters)
        /\ \A q \in book_pages :
              q.chapters # <<>> => \E i \in DOMAIN index_page.cards : index_page.cards[i].id = q.id

\* C15: no entry point ends in an uncaught exception, whatever the source
\* directory holds
C15_RunsToCompletion == pc # "aborted"

\* this step passes a file whose read raises
ErrorStep ==
    /\ pc = "scan"
    /\ idx \in DOMAIN html_files
    /\ ~FrontMatter(html_files[idx])
    /\ dir[html_files[idx]].state = "unreadable"
    /\ idx' = idx + 1

\* C16: the step that passes a file whose read raises leaves the cursor and every
\* bucket list as they were and the scan goes on; no file passed that way stands
\* in any bucket list
C16_ErrorSkipsFile ==
    [][/\ ErrorStep =>
             /\ current_section' = current_section
             /\ book_sections' = book_sections
             /\ pc' = "scan"
       /\ \A i \in DOMAIN html_files :
             (/\ i < idx
              /\ ~FrontMatter(html_files[i])
              /\ dir[html_files[i]].state = "unreadable")
             => Occurrences(html_files[i]) = 0]_vars

\* the file between two files of the first book could not be read
C16_Witness ==
    /\ dir[Page(6)].state = "unreadable"
    /\ book_sections["first_book_adam_eve"] = <<Page(5), Page(7)>>
    /\ current_section = "first_book_adam_eve"
    /\ pc = "done"

\* C17: a document without a body element gives an empty title and an empty
\* fragment, whatever its metadata title and its elements
C17_NoBodyNothingExtracted ==
    (Extracted /\ ~doc.hasBody) => result = Empty

\* a document with a metadata title, a heading and a long paragraph, but no body
C17_Witness ==
    /\ Extracted /\ ~doc.hasBody
    /\ variant = "add_adam_eve"
    /\ doc.og = <<"Chapter II", Suffix>>
    /\ Len(doc.nodes) = 2
    /\ doc.nodes[1].tag = "h1" /\ doc.nodes[2].tag = "p"
    /\ result = Empty

\* C19: the fragment holds no script, style, nav or hr element, at any depth
C19_NoChromeInFragment ==
    Extracted =>
        \A i \in DOMAIN result.fragment :
            result.fragment[i] \notin {"<script>", "<style>", "<nav>", "<hr/>"}

\* a long paragraph with a script and a horizontal rule inside it is serialized
\* without them
C19_Witness ==
    /\ Extracted /\ doc.hasBody
    /\ variant = "create_website"
    /\ Len(doc.nodes) = 3
    /\ doc.nodes[1].tag = "p"
    /\ doc.nodes[2].tag = "script" /\ doc.nodes[2].parent = 1
    /\ doc.nodes[3].tag = "hr" /\ doc.nodes[3].parent = 1
    /\ result.fragment = <<"<p>", LongText, "</p>", "\n">>

\* a front-matter file or an index file
Fixed(f) == FrontMatter(f) \/ f \in {IndexFile, PageIdxFile}

\* this step passes a front-matter or index file of the scan list
FixedStep ==
    /\ pc = "scan"
    /\ idx \in DOMAIN html_files
    /\ Fixed(html_files[idx])
    /\ idx' = idx + 1

\* C20: the step of the scan that reaches a front-matter or index file leaves the
\* cursor and every bucket list as they were; such a file stands only where the
\* table put it, and it is the file of no chapter of any book
C20_FixedFilesPassedOver ==
    [][/\ FixedStep =>
             /\ current_section' = current_section
             /\ book_sections' = book_sections
       /\ \A f \in DOMAIN dir : Fixed(f) => Occurrences(f) = 1
       /\ (\A chapters \in ChapterLists :
              \A i \in DOMAIN chapters : ~Fixed(chapters[i].filename))']_vars

\* a run over a directory that holds a front-matter page and the index page and
\* gives a book
C20_Witness ==
    /\ pc = "generated"
    /\ html_files # <<>> /\ html_files[1] = Page(TitlePage)
    /\ dir[IndexFile].state = "ok"
    /\ books_data # <<>>

\* C18: a second run over the unchanged directory, whatever the order in which
\* the directory lists its names this time, ends with the bucket lists and the
\* books, chapter fragments included, of the first run
C18_RerunIdentical ==
    (pc = "generated" /\ previous.ran) =>
        /\ book_sections = previous.book_sections
        /\ books_data = previous.books_data

\* a second run, on the front-matter page and three pages listed in sorted
\* order, that filed the pages under two books as the first run did
C18_Witness ==
    /\ pc = "generated" /\ previous.ran
    /\ listing = <<Page(3), Page(5), Page(6), Page(7)>>
    /\ book_sections["first_book_adam_eve"] = <<Page(5)>>
    /\ book_sections["second_book_adam_eve"] = <<Page(6), Page(7)>>
    /\ Len(books_data) = 2

-----------------------------------------------------------------------------
(* Properties of the chapter lists *)

\* the file names of a chapter list, in its order
FilenameList(chapters) == [i \in DOMAIN chapters |-> chapters[i].filename]

RECURSIVE IsSubsequence(_, _)
\* list a is list b with some elements left out, the others in b's order
IsSubsequence(a, b) ==
    IF a = <<>> THEN TRUE
    ELSE IF b = <<>> THEN FALSE
    ELSE IF Head(a) = Head(b) THEN IsSubsequence(Tail(a), Tail(b))
    ELSE IsSubsequence(a, Tail(b))

\* the names of list s stand in sorted order, none twice
Ascending(s) == \A i, j \in DOMAIN s : i < j => NameLess(s[i], s[j])

\* C21: the chapters of every book come from files in file-sorted order, no file
\* twice in a book and no file in two books; the chapter list of a book of
\* create_website is its bucket's file list, itself in sorted order, with files
\* left out and the others in the bucket's order
C21_ChaptersFollowBucket ==
    /\ \A chapters \in ChapterLists : Ascending(FilenameList(chapters))
    /\ \A i, j \in DOMAIN books_data :
          i # j => Filenames(books_data[i].chapters) \cap Filenames(books_data[j].chapters) = {}
    /\ \A q1, q2 \in book_pages :
          q1.id # q2.id => Filenames(q1.chapters) \cap Filenames(q2.chapters) = {}
    /\ pc = "generated" =>
          /\ \A i \in DOMAIN books_data :
                /\ Ascending(book_sections[books_data[i].id])
                /\ IsSubsequence(FilenameList(books_data[i].chapters),
                                 book_sections[books_data[i].id])
          /\ \A q \in book_pages :
                IsSubsequence(FilenameList(q.chapters), book_sections[q.id])

\* two books were emitted; the second has a chapter for each of its two files
C21_Witness ==
    /\ pc = "generated"
    /\ Len(books_data) = 2
    /\ book_sections[books_data[1].id] = <<Page(5)>>
    /\ book_sections[books_data[2].id] = <<Page(6), Page(7)>>
    /\ FilenameList(books_data[2].chapters) = <<Page(6), Page(7)>>

-----------------------------------------------------------------------------
(* Properties of the default bucket and the cursor *)

\* the lower-cased title the scan extracts from file f
ScanTitle(f) == LowerText(BP_extract_clean_content(dir[f].doc).title)

\* position i of the scan list holds a file the scan reads
Visited(i) == ~FrontMatter(html_files[i]) /\ dir[html_files[i]].state = "ok"

\* no file read up to position i of the scan list has a title with a keyword
NoKeywordUpTo(i) ==
    \A j \in 1..i : Visited(j) => Matches(ScanTitle(html_files[j])) = {}

\* C23: the scan starts with the cursor at title_pages; every file it has read
\* before the first title with a keyword stands in the title_pages list; and no
\* file of the title_pages list is the file of a chapter of any book
C23_DefaultBucketNotEmitted ==
    /\ (pc = "scan" /\ idx = 1) => current_section = "title_pages"
    /\ pc \in {"scan", "done", "generated"} =>
          \A i \in DOMAIN html_files :
              (i < idx /\ Visited(i) /\ NoKeywordUpTo(i))
              => InSeq(html_files[i], book_sections["title_pages"])
    /\ \A chapters \in ChapterLists : \A i \in DOMAIN chapters :
          ~InSeq(chapters[i].filename, book_sections["title_pages"])

\* a page with a heading and a paragraph came before the first page of a book: it
\* was filed under title_pages and the book was emitted without it
C23_Witness ==
    /\ pc = "generated"
    /\ book_sections["title_pages"] = title_pages \o <<Page(5)>>
    /\ ~Unusable("create_website", Page(5))
    /\ books_data # <<>>

\* C24: the cursor names title_pages or one of the nine books and never
\* index_pages, and no step takes it from a book back to title_pages
C24_CursorNeverReturns ==
    [][/\ current_section' \in Cursors
       /\ current_section # "title_pages" => current_section' # "title_pages"]_vars

\* the cursor stayed at the last book of the table over a title without keyword
C24_Witness ==
    /\ current_section = "testaments_patriarchs"
    /\ title_lower = <<"chapter iii">>
    /\ Len(book_sections["testaments_patriarchs"]) = 2

\* the place of bucket b in the table
BucketIndex(b) == CHOOSE i \in DOMAIN Buckets : Buckets[i] = b

\* C25: the books of the returned books data stand in the order of the bucket
\* table, and the cards of the index page in the order of the books data,
\* whatever the order in which the scan reached the buckets
C25_BooksInTableOrder ==
    pc = "generated" =>
        /\ \A i, j \in DOMAIN books_data :
              i < j => BucketIndex(books_data[i].id) < BucketIndex(books_data[j].id)
        /\ Len(index_page.cards) = Len(books_data)
        /\ \A i \in DOMAIN books_data : index_page.cards[i].id = books_data[i].id
        /\ {q.id : q \in book_pages} = {books_data[i].id : i \in DOMAIN books_data}

\* the scan reached the second book before the first; the first is emitted first
C25_Witness ==
    /\ pc = "generated"
    /\ book_sections["second_book_adam_eve"] = <<Page(5)>>
    /\ book_sections["first_book_adam_eve"] = <<Page(6), Page(7)>>
    /\ Len(books_data) = 2
    /\ books_data[1].id = "first_book_adam_eve"
    /\ index_page.cards[2].id = "second_book_adam_eve"

-----------------------------------------------------------------------------
(* Properties of nested elements *)

\* element i of document d passes the test of the content loop of variant v:
\* add_adam_eve asks for more than 10 characters, the others for any text
Qualifies(v, d, alive, i) ==
    /\ i \in alive
    /\ d.nodes[i].tag \in Collected
    /\ LET text == Strip(GetText(d.nodes, alive, i))
       IN /\ text # <<>>
          /\ v = "add_adam_eve" => StrLen(text) > MinElementText

\* how often element i is serialized: once inside the entry of each qualifying
\* element above it and once as its own entry when it qualifies
Copies(v, d, alive, i) ==
    Cardinality({a \in alive : IsAnc(d.nodes, a, i) /\ Qualifies(v, d, alive, a)})
    + (IF Qualifies(v, d, alive, i) THEN 1 ELSE 0)

RECURSIVE CopiesOfTag(_, _, _, _, _)
\* the same, summed over the remaining elements with tag t from element i on
CopiesOfTag(v, d, alive, t, i) ==
    IF i > Len(d.nodes) THEN 0
    ELSE (IF i \in alive /\ d.nodes[i].tag = t THEN Copies(v, d, alive, i) ELSE 0)
         + CopiesOfTag(v, d, alive, t, i + 1)

\* how often token t stands in fragment f
CountToken(f, t) == Cardinality({k \in DOMAIN f : f[k] = t})

\* C26: the fragment has one entry for each element that passes the test of the
\* content loop, nested or not, and every paragraph, heading and div is
\* serialized once in its own entry and once more in the entry of each
\* qualifying element it lies in
C26_EntryPerQualifyingElement ==
    (Extracted /\ doc.hasBody) =>
        LET alive == CleanedBy(variant, doc)
        IN /\ Len(EntryTags(result.fragment, 1)) =
                 Cardinality({i \in DOMAIN doc.nodes : Qualifies(variant, doc, alive, i)})
           /\ \A t \in {"p", "h1", "div"} :
                 CountToken(result.fragment, "<" \o t \o ">") =
                     CopiesOfTag(variant, doc, alive, t, 1)

\* a long paragraph inside a div: the paragraph stands in the entry of the div and
\* in an entry of its own
C26_Witness ==
    /\ Extracted /\ doc.hasBody
    /\ variant = "add_adam_eve"
    /\ Len(doc.nodes) = 2
    /\ doc.nodes[1].tag = "div"
    /\ doc.nodes[2].tag = "p" /\ doc.nodes[2].parent = 1
    /\ result.fragment = <<"<div>", "<p>", LongText, "</p>", "</div>", "\n",
                           "<p>", LongText, "</p>", "\n">>

-----------------------------------------------------------------------------
(* Properties of the scan and the split of improve_website *)

\* improve_website has run
Improved == pc = "written" /\ variant = "improve_website"

\* the lower-cased title improve_website reads from file f
IW_title(f) == LowerText(IW_scan_title(dir[f].doc))

Elements(s) == {s[i] : i \in DOMAIN s}

\* the first place of list s whose file has a title of the second book, or the
\* place after its end
SecondStart(s) ==
    LET hits == {i \in DOMAIN s : Contains(IW_title(s[i]), "second book of adam")}
    IN IF hits = {} THEN Len(s) + 1 ELSE CHOOSE i \in hits : \A j \in hits : i <= j

\* C27: current_book goes from "first" to "second" at the first collected file
\* with a title of the second book and stays there: first_book_files is the part
\* of adam_eve_files before that file and second_book_files the rest, so the two
\* lists share no file, every file of the first precedes every file of the
\* second, and together they hold every file of adam_eve_files
C27_SplitOnce ==
    Improved =>
        /\ first_book_files = SubSeq(adam_eve_files, 1, SecondStart(adam_eve_files) - 1)
        /\ second_book_files =
              SubSeq(adam_eve_files, SecondStart(adam_eve_files), Len(adam_eve_files))
        /\ Elements(first_book_files) \cap Elements(second_book_files) = {}
        /\ \A f \in Elements(first_book_files), g \in Elements(second_book_files) :
              NameLess(f, g)
        /\ Elements(first_book_files) \cup Elements(second_book_files)
              = Elements(adam_eve_files)
        /\ \A f \in Elements(adam_eve_files) : Opens(dir, f)

\* a title of the first book came after a title of the second book: the file
\* stayed in the second book
C27_Witness ==
    /\ Improved
    /\ adam_eve_files = <<Page(5), Page(6), Page(7)>>
    /\ Contains(IW_title(Page(6)), "second book of adam")
    /\ Contains(IW_title(Page(7)), "first book of adam")
    /\ first_book_files = <<Page(5)>>
    /\ second_book_files = <<Page(6), Page(7)>>

\* the files improve_website scans, in scan order
IW_scanned == AfterTitlePages(IW_html_files(listing))

IsEnoch(t) == Contains(t, "secrets of enoch") \/ Contains(t, "book of the secrets")

\* the first place of the scan list whose file is read and has an Enoch title, or
\* the place after its end
EnochStart ==
    LET hits == {i \in DOMAIN IW_scanned :
                    Opens(dir, IW_scanned[i]) /\ IsEnoch(IW_title(IW_scanned[i]))}
    IN IF hits = {} THEN Len(IW_scanned) + 1 ELSE CHOOSE i \in hits : \A j \in hits : i <= j

\* file f is in one of the two books: in a file list or on a page
InAdamEveBook(f) ==
    \/ f \in Elements(first_book_files) \cup Elements(second_book_files)
    \/ \E q \in book_pages : f \in Filenames(q.chapters)

\* C28: the file with the first Enoch title and every file after it is in neither
\* book; a file before it is collected exactly when it is read and its title
\* holds both 'adam' and 'eve', whatever the titles of the files around it
C28_StopsAtEnoch ==
    Improved =>
        \A i \in DOMAIN IW_scanned :
            LET f == IW_scanned[i]
                t == IW_title(f)
            IN /\ i >= EnochStart => ~InAdamEveBook(f)
               /\ (i < EnochStart /\ ~(Opens(dir, f) /\ Contains(t, "adam") /\ Contains(t, "eve")))
                     => ~InAdamEveBook(f)
               /\ (i < EnochStart /\ Opens(dir, f) /\ Contains(t, "adam") /\ Contains(t, "eve"))
                     => InSeq(f, adam_eve_files)

\* a page of the first book stands after the page with the Enoch title and was
\* not collected
C28_Witness ==
    /\ Improved
    /\ IW_scanned = <<Page(5), Page(6), Page(7)>>
    /\ EnochStart = 2
    /\ Opens(dir, Page(7)) /\ Contains(IW_title(Page(7)), "first book of adam")
    /\ adam_eve_files = <<Page(5)>>
    /\ book_pages # {}

-----------------------------------------------------------------------------
(* Properties of the book page of add_adam_eve *)

\* the files of the first range that give a chapter
FirstBookChapters ==
    {f \in DOMAIN dir : f.num <= FirstBookLast /\ Opens(dir, f) /\ ~Unusable("add_adam_eve", f)}

\* C22: a page add_adam_eve wrote has an option for each of its first 20
\* chapters, or for all when it has fewer, option i targeting chapter i, so every
\* option targets a chapter rendered on the page; and the page of the first book
\* renders a chapter for every file of the first range that gives one
C22_DropdownFirstTwenty ==
    (pc = "written" /\ variant = "add_adam_eve") =>
        \A q \in book_pages :
            /\ Len(q.options) = IF Len(q.chapters) < 20 THEN Len(q.chapters) ELSE 20
            /\ \A i \in DOMAIN q.options :
                  /\ q.options[i] = q.chapters[i].filename
                  /\ q.options[i] \in Filenames(q.chapters)
            /\ q.id = "first_book_adam_eve" =>
                  Filenames(q.chapters) = FirstBookChapters

\* the first book has 21 chapters, its third page could not be read: 20 options,
\* the third of them for the fourth page
C22_Witness ==
    /\ pc = "written" /\ variant = "add_adam_eve"
    /\ dir[Page(7)].state = "unreadable"
    /\ \E q \in book_pages :
          /\ q.id = "first_book_adam_eve"
          /\ Len(q.chapters) = 21
          /\ Len(q.options) = 20
          /\ q.options[3] = Page(8)
          /\ q.chapters[21].filename = Page(26)

-----------------------------------------------------------------------------
(* Properties of the scan under changed heads *)

\* C29: the scan of a directory that differs from an earlier one in the heads of
\* its pages only ends with the bucket lists of the earlier scan
C29_HeadsDoNotMatter ==
    (previous.ran /\ pc \in {"done", "generated"}) =>
        book_sections = previous.book_sections

\* the head of the first page names the second book and its heading the first:
\* the page is filed under the first book, as it was without the head
C29_Witness ==
    /\ previous.ran /\ pc = "done"
    /\ dir[Page(5)].state = "ok"
    /\ dir[Page(5)].doc.meta = "head"
    /\ dir[Page(5)].doc.og = <<"The Second Book of Adam and Eve", Suffix>>
    /\ book_sections["first_book_adam_eve"] = <<Page(5), Page(6)>>
    /\ book_sections["second_book_adam_eve"] = <<Page(7)>>

=============================================================================
